---------------------------- MODULE Spec2Model ----------------------------
(***************************************************************************)
(* A model of the PDF toolkit backend (src/main.py): the page-range parser *)
(* _parse_pages and the request handlers merge_pdfs, rotate_pdf,           *)
(* images_to_pdf and extract_images.                                       *)
(*                                                                         *)
(* A Python str is a tuple of one-character strings; None is the tuple     *)
(* NoneStr.  A document is the tuple of its pages; bytes that PdfReader    *)
(* cannot decode are the document Corrupt.  A response is a record         *)
(* [status, detail, body]; an exception that leaves a handler is the       *)
(* response the framework makes of it (an HTTPException keeps its status,  *)
(* any other exception is a 500).                                          *)
(***************************************************************************)
EXTENDS Integers, Sequences, FiniteSets, TLC

VARIABLES
    \* _parse_pages called on its own
    pages, total_pages, parse_out,
    \* merge_pdfs and images_to_pdf, one request per slot of the event loop
    req, pc, pos, writer, decoded, pil_images, opened, closed, resp,
    \* rotate_pdf, one request
    rot_req, rot_pc, rot_reader, rot_indices, rot_i, rot_writer, rot_resp,
    \* extract_images, one request
    ext_req, ext_pc, ext_reader, ext_page_idx, ext_img_count, ext_zf, ext_resp

parse_vars == <<pages, total_pages, parse_out>>
serve_vars == <<req, pc, pos, writer, decoded, pil_images, opened, closed, resp>>
rot_vars == <<rot_req, rot_pc, rot_reader, rot_indices, rot_i, rot_writer, rot_resp>>
ext_vars == <<ext_req, ext_pc, ext_reader, ext_page_idx, ext_img_count, ext_zf, ext_resp>>
vars == <<parse_vars, serve_vars, rot_vars, ext_vars>>

---------------------------------------------------------------------------
(* Bounds *)

\* longest page-range expression enumerated character by character
MaxLen == 3
\* most comma-separated tokens in an expression joined from SampleTokens
MaxTokens == 2
\* largest page count handed to _parse_pages
MaxTotal == 3

---------------------------------------------------------------------------
(* Python values *)

NoneStr == <<"None">>
Digits == <<"0", "1", "2", "3", "4", "5", "6", "7", "8", "9">>
DigitChars == {Digits[i] : i \in 1..10}
Whitespace == {" "}

MinOf(S) == CHOOSE x \in S : \A y \in S : x <= y
MaxOf(S) == CHOOSE x \in S : \A y \in S : x >= y

\* sorted(selected)
RECURSIVE sorted(_)
sorted(S) ==
    IF S = {} THEN <<>> ELSE <<MinOf(S)>> \o sorted(S \ {MinOf(S)})

\* str.find: the first position of c in s, 0 when absent
find(s, c) ==
    IF \E i \in 1..Len(s) : s[i] = c
    THEN MinOf({i \in 1..Len(s) : s[i] = c})
    ELSE 0

\* s.split(sep): every separator splits
RECURSIVE split(_, _)
split(s, sep) ==
    IF find(s, sep) = 0
    THEN <<s>>
    ELSE <<SubSeq(s, 1, find(s, sep) - 1)>>
             \o split(SubSeq(s, find(s, sep) + 1, Len(s)), sep)

\* s.split(sep, 1): only the first separator splits (s holds one)
split1(s, sep) ==
    <<SubSeq(s, 1, find(s, sep) - 1), SubSeq(s, find(s, sep) + 1, Len(s))>>

\* s.strip()
strip(s) ==
    LET keep == {i \in 1..Len(s) : s[i] \notin Whitespace}
    IN  IF keep = {} THEN <<>> ELSE SubSeq(s, MinOf(keep), MaxOf(keep))

\* the digits of an int literal: surrounding whitespace and one sign dropped
IntBody(s) ==
    LET t == strip(s)
    IN  IF t # <<>> /\ t[1] \in {"+", "-"} THEN Tail(t) ELSE t

\* whether int(s) returns (otherwise it raises ValueError)
IsInt(s) ==
    /\ IntBody(s) # <<>>
    /\ \A i \in 1..Len(IntBody(s)) : IntBody(s)[i] \in DigitChars

DigitVal(c) == (CHOOSE i \in 1..10 : Digits[i] = c) - 1

RECURSIVE NatVal(_)
NatVal(d) ==
    IF d = <<>> THEN 0
    ELSE 10 * NatVal(SubSeq(d, 1, Len(d) - 1)) + DigitVal(d[Len(d)])

\* int(s), for s with IsInt(s)
int(s) ==
    IF strip(s)[1] = "-" THEN 0 - NatVal(IntBody(s)) ELSE NatVal(IntBody(s))

max(a, b) == IF a >= b THEN a ELSE b
min(a, b) == IF a <= b THEN a ELSE b

\* range(lo, hi) as a set
range(lo, hi) == {i \in lo..(hi - 1) : TRUE}

---------------------------------------------------------------------------
(* Responses and exceptions *)

\* what a handler answers: a stream of pages (200) or an error
Response(code, msg, body) == [status |-> code, detail |-> msg, body |-> body]
NoResponse == Response(0, "", <<>>)
\* an exception that is no HTTPException leaves the handler: the framework answers 500
Unhandled(msg) == Response(500, msg, <<>>)

Returned(v) == [kind |-> "return", exc |-> "", status |-> 0, detail |-> "", value |-> v]
HTTPException(code, msg) ==
    [kind |-> "raise", exc |-> "HTTPException", status |-> code, detail |-> msg, value |-> <<>>]
ValueError ==
    [kind |-> "raise", exc |-> "ValueError", status |-> 0, detail |-> "invalid literal for int()", value |-> <<>>]
NotCalled == [kind |-> "none", exc |-> "", status |-> 0, detail |-> "", value |-> <<>>]

---------------------------------------------------------------------------
(* _parse_pages *)

\* start = max(1, int(a))
ClampStart(a) == max(1, a)

ClampEndUncapped(b, total) == b
\* end = min(total_pages, int(b))
ClampEnd(b, total) == min(total, b)

\* the indices one token adds; the token is stripped and not empty
PartBad(part) ==
    IF find(part, "-") # 0
    THEN ~IsInt(split1(part, "-")[1]) \/ ~IsInt(split1(part, "-")[2])
    ELSE ~IsInt(part)

PartIndices(part, total) ==
    IF find(part, "-") # 0
    THEN LET ab == split1(part, "-")
             start == ClampStart(int(ab[1]))
             end == ClampEnd(int(ab[2]), total)
         IN  range(start - 1, end)
    ELSE LET idx == int(part)
         IN  IF 1 <= idx /\ idx <= total THEN {idx - 1} ELSE {}

\* the for loop over pages.split(','): the set selected when it ends, or
\* "ValueError" when a token's int() raises
RECURSIVE ParseLoop(_, _, _, _)
ParseLoop(parts, k, selected, total) ==
    IF k > Len(parts) THEN [raised |-> FALSE, selected |-> selected]
    ELSE LET part == strip(parts[k])
         IN  IF part = <<>> THEN ParseLoop(parts, k + 1, selected, total)
             ELSE IF PartBad(part) THEN [raised |-> TRUE, selected |-> {}]
             ELSE ParseLoop(parts, k + 1, selected \cup PartIndices(part, total), total)

\* ordered = sorted(selected)
Ordered(selected) == sorted(selected)

_parse_pages(p, total) ==
    IF p = NoneStr \/ p = <<>>
    THEN Returned([i \in 1..total |-> i - 1])
    ELSE LET r == ParseLoop(split(p, ","), 1, {}, total)
         IN  IF r.raised THEN ValueError
             ELSE IF Ordered(r.selected) = <<>>
                  THEN HTTPException(400, "No valid pages selected")
                  ELSE Returned(Ordered(r.selected))

---------------------------------------------------------------------------
(* Page-range expressions handed to the parser *)

Alphabet == {"0", "1", "3", "-", ",", " ", "x"}

StringsUpTo(n) == UNION {[1..k -> Alphabet] : k \in 0..n}

SampleTokens ==
    { <<"1">>, <<"3">>, <<"1", "3">>, <<"0", "-", "3">>, <<"1", "-", "3">>,
      <<"3", "-", "1", "3">>, <<"3", "-", "1">>, <<"-", "3">>, <<"3", "-">>,
      <<" ", "1", " ">>, <<"x">>, <<>> }

RECURSIVE Join(_)
Join(toks) ==
    IF Len(toks) = 0 THEN <<>>
    ELSE IF Len(toks) = 1 THEN toks[1]
    ELSE toks[1] \o <<",">> \o Join(Tail(toks))

JoinedUpTo(n) == {Join(t) : t \in UNION {[1..k -> SampleTokens] : k \in 1..n}}

PageExprs == {NoneStr} \cup StringsUpTo(MaxLen) \cup JoinedUpTo(MaxTokens)

---------------------------------------------------------------------------
(* Documents and uploads *)

\* most files in one merge request (SpecMerge)
MaxFiles == 3
\* most pages in one uploaded document (SpecMerge)
MaxDocPages == 2
\* most files or images in one request when two requests interleave (SpecServe)
MaxServeFiles == 2

PageNames == {"p", "q"}
\* what PdfReader makes of uploaded bytes: a document, or bytes it cannot decode
Document(pgs) == [readable |-> TRUE, pages |-> pgs]
Corrupt == [readable |-> FALSE, pages |-> <<>>]
DocsUpTo(n) == {Document(d) : d \in UNION {[1..k -> PageNames] : k \in 0..n}}

Upload(is_pdf, body) == [filename_pdf |-> is_pdf, body |-> body]

\* uploads of a merge request: well-named documents, a well-named file that
\* is no document, and a document whose name does not end in .pdf
MergeUploads(n) ==
    {Upload(TRUE, d) : d \in DocsUpTo(n) \cup {Corrupt}} \cup {Upload(FALSE, Document(<<"p">>))}

\* uploads of an images-to-pdf request: two images, bytes that are no image,
\* and an image that decodes and that Image.save cannot write
ImageUploads == {"i1", "i2", "bad", "unsavable"}

SeqsUpTo(S, n) == UNION {[1..k -> S] : k \in 0..n}

MergeRequest(files) == [kind |-> "merge", files |-> files]
ImagesRequest(images) == [kind |-> "images", files |-> images]
NoRequest == [kind |-> "none", files |-> <<>>]

Slots == {1, 2}

---------------------------------------------------------------------------
(* merge_pdfs *)

add_page_dedup(w, page) ==
    IF \E k \in 1..Len(w) : w[k] = page THEN w ELSE Append(w, page)
\* writer.add_page(page)
add_page(w, page) == Append(w, page)

\* for page in reader.pages: writer.add_page(page)
RECURSIVE AddPages(_, _, _)
AddPages(w, doc, k) ==
    IF k > Len(doc) THEN w ELSE AddPages(add_page(w, doc[k]), doc, k + 1)

WriterShared(r) == 1
\* writer = PdfWriter(): a local of the call
WriterOf(r) == r

\* except Exception as e: raise HTTPException(status_code=500, detail=str(e))
MergeExcept(msg) == Response(500, msg, <<>>)

MergeStart(r) ==
    /\ pc[r] = "start"
    /\ req[r].kind = "merge"
    /\ IF Len(req[r].files) < 2
       THEN /\ resp' = [resp EXCEPT ![r] =
                   Response(400, "Upload at least two PDF files to merge", <<>>)]
            /\ pc' = [pc EXCEPT ![r] = "done"]
            /\ UNCHANGED <<writer, pos>>
       ELSE /\ writer' = [writer EXCEPT ![WriterOf(r)] = <<>>]
            /\ pos' = [pos EXCEPT ![r] = 1]
            /\ pc' = [pc EXCEPT ![r] = "for"]
            /\ UNCHANGED resp
    /\ UNCHANGED <<req, decoded, pil_images, opened, closed>>
    /\ UNCHANGED <<parse_vars, rot_vars, ext_vars>>

\* the head of an iteration: the extension check, then the await of f.read()
MergeCheck(r) ==
    /\ pc[r] = "for"
    /\ req[r].kind = "merge"
    /\ pos[r] <= Len(req[r].files)
    /\ IF ~req[r].files[pos[r]].filename_pdf
       THEN /\ resp' = [resp EXCEPT ![r] = MergeExcept("is not a PDF")]
            /\ pc' = [pc EXCEPT ![r] = "done"]
       ELSE /\ pc' = [pc EXCEPT ![r] = "read"]
            /\ UNCHANGED resp
    /\ UNCHANGED <<req, pos, writer, decoded, pil_images, opened, closed>>
    /\ UNCHANGED <<parse_vars, rot_vars, ext_vars>>

\* f.read() has returned: PdfReader decodes the bytes, the pages are added
MergeRead(r) ==
    /\ pc[r] = "read"
    /\ req[r].kind = "merge"
    /\ LET body == req[r].files[pos[r]].body
       IN  IF ~body.readable
           THEN /\ resp' = [resp EXCEPT ![r] = MergeExcept("PdfReadError")]
                /\ pc' = [pc EXCEPT ![r] = "done"]
                /\ UNCHANGED <<writer, pos, decoded>>
           ELSE /\ writer' = [writer EXCEPT ![WriterOf(r)] = AddPages(@, body.pages, 1)]
                /\ decoded' = [decoded EXCEPT ![r] = @ \cup {pos[r]}]
                /\ pos' = [pos EXCEPT ![r] = @ + 1]
                /\ pc' = [pc EXCEPT ![r] = "for"]
                /\ UNCHANGED resp
    /\ UNCHANGED <<req, pil_images, opened, closed>>
    /\ UNCHANGED <<parse_vars, rot_vars, ext_vars>>

\* the loop is over: writer.write(out), the response streams it
MergeWrite(r) ==
    /\ pc[r] = "for"
    /\ req[r].kind = "merge"
    /\ pos[r] > Len(req[r].files)
    /\ resp' = [resp EXCEPT ![r] = Response(200, "merged.pdf", writer[WriterOf(r)])]
    /\ pc' = [pc EXCEPT ![r] = "done"]
    /\ UNCHANGED <<req, pos, writer, decoded, pil_images, opened, closed>>
    /\ UNCHANGED <<parse_vars, rot_vars, ext_vars>>

---------------------------------------------------------------------------
(* images_to_pdf *)

\* whether Image.open(...).convert("RGB") returns an image
Decodable(img) == img # "bad"
\* whether first.save(..., save_all=True, append_images=rest) writes them
Savable(images) == \A k \in 1..Len(images) : images[k] # "unsavable"

\* for im in pil_images: im.close()
CloseAll(handles) == {handles[k] : k \in 1..Len(handles)}

ImagesStart(r) ==
    /\ pc[r] = "start"
    /\ req[r].kind = "images"
    /\ IF req[r].files = <<>>
       THEN /\ resp' = [resp EXCEPT ![r] = Response(400, "Upload at least one image", <<>>)]
            /\ pc' = [pc EXCEPT ![r] = "done"]
            /\ UNCHANGED <<pil_images, pos>>
       ELSE /\ pil_images' = [pil_images EXCEPT ![r] = <<>>]
            /\ pos' = [pos EXCEPT ![r] = 1]
            /\ pc' = [pc EXCEPT ![r] = "read"]
            /\ UNCHANGED resp
    /\ UNCHANGED <<req, writer, decoded, opened, closed>>
    /\ UNCHANGED <<parse_vars, rot_vars, ext_vars>>

\* img.read() has returned: the image is decoded, converted and kept, or the
\* except branch closes the images kept so far and answers 400
ImagesRead(r) ==
    /\ pc[r] = "read"
    /\ req[r].kind = "images"
    /\ IF ~Decodable(req[r].files[pos[r]])
       THEN /\ closed' = [closed EXCEPT ![r] = @ \cup CloseAll(pil_images[r])]
            /\ resp' = [resp EXCEPT ![r] =
                   Response(400, "One or more files are not valid images", <<>>)]
            /\ pc' = [pc EXCEPT ![r] = "done"]
            /\ UNCHANGED <<pil_images, opened, pos>>
       ELSE /\ pil_images' = [pil_images EXCEPT ![r] = Append(@, pos[r])]
            /\ opened' = [opened EXCEPT ![r] = @ \cup {pos[r]}]
            /\ IF pos[r] = Len(req[r].files)
               THEN pc' = [pc EXCEPT ![r] = "save"] /\ UNCHANGED pos
               ELSE pos' = [pos EXCEPT ![r] = @ + 1] /\ UNCHANGED pc
            /\ UNCHANGED <<closed, resp>>
    /\ UNCHANGED <<req, writer, decoded>>
    /\ UNCHANGED <<parse_vars, rot_vars, ext_vars>>

\* first.save(...), then the images are closed and the document streamed; an
\* exception of save leaves the handler at once
ImagesSave(r) ==
    /\ pc[r] = "save"
    /\ req[r].kind = "images"
    /\ IF ~Savable(req[r].files)
       THEN /\ resp' = [resp EXCEPT ![r] = Unhandled("save")]
            /\ UNCHANGED closed
       ELSE /\ closed' = [closed EXCEPT ![r] = @ \cup CloseAll(pil_images[r])]
            /\ resp' = [resp EXCEPT ![r] =
                   Response(200, "images.pdf",
                            [k \in 1..Len(pil_images[r]) |-> req[r].files[pil_images[r][k]]])]
    /\ pc' = [pc EXCEPT ![r] = "done"]
    /\ UNCHANGED <<req, pos, writer, decoded, pil_images, opened>>
    /\ UNCHANGED <<parse_vars, rot_vars, ext_vars>>

---------------------------------------------------------------------------
(* rotate_pdf *)

\* most pages in the document of a rotate request
MaxRotPages == 3

\* a page of a rotate request: its place in the source and its /Rotate entry
SourcePage(k, deg) == [id |-> k, rotation |-> deg]
Rotations == {0, 90, 270}
RotDocsUpTo(n) ==
    UNION {{Document([k \in 1..m |-> SourcePage(k, f[k])]) : f \in [1..m -> Rotations]} :
              m \in 0..n}

Angles == {0, 90, 180, 270, 360}

RotPageExprs ==
    { NoneStr, <<>>, <<"1">>, <<"3", ",", "1">>, <<"2", "-", "3">>,
      <<"0", "-", "9", "9">>, <<"9">>, <<"2", "-">> }

RotateRequest(is_pdf, body, angle, p) ==
    [filename_pdf |-> is_pdf, body |-> body, angle |-> angle, pages |-> p]

rotate_absolute(page, angle) == [page EXCEPT !.rotation = angle]
\* page.rotate(angle): pypdf writes the page's rotation plus angle as /Rotate
rotate(page, angle) == [page EXCEPT !.rotation = @ + angle]

\* the response the framework makes of what _parse_pages raised
Raised(e) ==
    IF e.exc = "HTTPException" THEN Response(e.status, e.detail, <<>>)
    ELSE Unhandled(e.detail)

RotateStart ==
    /\ rot_pc = "start"
    /\ IF rot_req.angle \notin {90, 180, 270}
       THEN /\ rot_resp' = Response(400, "Angle must be 90, 180, or 270", <<>>)
            /\ rot_pc' = "done"
       ELSE IF ~rot_req.filename_pdf
       THEN /\ rot_resp' = Response(400, "File must be a PDF", <<>>)
            /\ rot_pc' = "done"
       ELSE /\ rot_pc' = "read"
            /\ UNCHANGED rot_resp
    /\ UNCHANGED <<rot_req, rot_reader, rot_indices, rot_i, rot_writer>>
    /\ UNCHANGED <<parse_vars, serve_vars, ext_vars>>

\* file.read() has returned: the document is decoded and the targets resolved
RotateRead ==
    /\ rot_pc = "read"
    /\ IF ~rot_req.body.readable
       THEN /\ rot_resp' = Unhandled("PdfReadError")
            /\ rot_pc' = "done"
            /\ UNCHANGED <<rot_reader, rot_indices, rot_i, rot_writer>>
       ELSE LET total == Len(rot_req.body.pages)
                parsed == _parse_pages(rot_req.pages, total)
            IN  IF rot_req.pages # NoneStr /\ rot_req.pages # <<>> /\ parsed.kind = "raise"
                THEN /\ rot_resp' = Raised(parsed)
                     /\ rot_pc' = "done"
                     /\ rot_reader' = rot_req.body.pages
                     /\ UNCHANGED <<rot_indices, rot_i, rot_writer>>
                ELSE /\ rot_reader' = rot_req.body.pages
                     /\ rot_indices' =
                           IF rot_req.pages # NoneStr /\ rot_req.pages # <<>>
                           THEN {parsed.value[k] : k \in 1..Len(parsed.value)}
                           ELSE range(0, total)
                     /\ rot_i' = 0
                     /\ rot_writer' = <<>>
                     /\ rot_pc' = "for"
                     /\ UNCHANGED rot_resp
    /\ UNCHANGED rot_req
    /\ UNCHANGED <<parse_vars, serve_vars, ext_vars>>

\* one iteration of for i, page in enumerate(reader.pages)
RotatePage ==
    /\ rot_pc = "for"
    /\ rot_i < Len(rot_reader)
    /\ LET page == IF rot_i \in rot_indices
                   THEN rotate(rot_reader[rot_i + 1], rot_req.angle)
                   ELSE rot_reader[rot_i + 1]
       IN  /\ rot_reader' = [rot_reader EXCEPT ![rot_i + 1] = page]
           /\ rot_writer' = add_page(rot_writer, page)
    /\ rot_i' = rot_i + 1
    /\ UNCHANGED <<rot_req, rot_pc, rot_indices, rot_resp>>
    /\ UNCHANGED <<parse_vars, serve_vars, ext_vars>>

RotateWrite ==
    /\ rot_pc = "for"
    /\ rot_i >= Len(rot_reader)
    /\ rot_resp' = Response(200, "rotated.pdf", rot_writer)
    /\ rot_pc' = "done"
    /\ UNCHANGED <<rot_req, rot_reader, rot_indices, rot_i, rot_writer>>
    /\ UNCHANGED <<parse_vars, serve_vars, ext_vars>>

---------------------------------------------------------------------------
(* extract_images *)

\* most pages in the document of an extract request
MaxExtPages == 2
\* most embedded images on one page
MaxPageImages == 2

\* what enumerating one embedded image of a page does: "png" yields an image
\* with a PIL image of that format, "raw" one without a PIL image,
\* "iter_error" raises while page.images yields it, "read_error" raises while
\* its format or data is read
EmbeddedImages == {"png", "raw", "iter_error", "read_error"}
ExtPages == SeqsUpTo(EmbeddedImages, MaxPageImages)
ExtDocs == {Document(d) : d \in SeqsUpTo(ExtPages, MaxExtPages)}

ExtractRequest(is_pdf, body) == [filename_pdf |-> is_pdf, body |-> body]

\* bytes the archive holds once the with block has closed it: zipfile writes
\* the end-of-central-directory record of an archive opened with mode 'w' even
\* when no entry was written; every entry adds its headers and data
ZipEndRecordBytes == 22
ZipEntryBytes == 76
nbytes(zf) == Len(zf) * ZipEntryBytes + ZipEndRecordBytes

\* ext = image.format.lower() if the object has an image, else 'bin'
Ext(img) == IF img = "png" THEN "png" ELSE "bin"

\* the try block of one page: the images are written one by one until the
\* page is exhausted or one raises; what was written stays written
RECURSIVE PageImages(_, _, _, _, _)
PageImages(page, k, page_no, count, zf) ==
    IF k > Len(page) THEN [img_count |-> count, zf |-> zf, raised |-> FALSE]
    ELSE IF page[k] = "iter_error" THEN [img_count |-> count, zf |-> zf, raised |-> TRUE]
    ELSE IF page[k] = "read_error" THEN [img_count |-> count + 1, zf |-> zf, raised |-> TRUE]
    ELSE PageImages(page, k + 1, page_no, count + 1,
                    Append(zf, [page |-> page_no, img |-> count + 1, ext |-> Ext(page[k])]))

ExtractStart ==
    /\ ext_pc = "start"
    /\ IF ~ext_req.filename_pdf
       THEN /\ ext_resp' = Response(400, "File must be a PDF", <<>>)
            /\ ext_pc' = "done"
       ELSE /\ ext_pc' = "read"
            /\ UNCHANGED ext_resp
    /\ UNCHANGED <<ext_req, ext_reader, ext_page_idx, ext_img_count, ext_zf>>
    /\ UNCHANGED <<parse_vars, serve_vars, rot_vars>>

ExtractRead ==
    /\ ext_pc = "read"
    /\ IF ~ext_req.body.readable
       THEN /\ ext_resp' = Unhandled("PdfReadError")
            /\ ext_pc' = "done"
            /\ UNCHANGED <<ext_reader, ext_page_idx, ext_img_count, ext_zf>>
       ELSE /\ ext_reader' = ext_req.body.pages
            /\ ext_zf' = <<>>
            /\ ext_img_count' = 0
            /\ ext_page_idx' = 1
            /\ ext_pc' = "for"
            /\ UNCHANGED ext_resp
    /\ UNCHANGED ext_req
    /\ UNCHANGED <<parse_vars, serve_vars, rot_vars>>

\* one iteration of for page_idx, page in enumerate(reader.pages, start=1)
ExtractPage ==
    /\ ext_pc = "for"
    /\ ext_page_idx <= Len(ext_reader)
    /\ LET r == PageImages(ext_reader[ext_page_idx], 1, ext_page_idx, ext_img_count, ext_zf)
       IN  /\ ext_zf' = r.zf
           /\ ext_img_count' = r.img_count
    /\ ext_page_idx' = ext_page_idx + 1
    /\ UNCHANGED <<ext_req, ext_pc, ext_reader, ext_resp>>
    /\ UNCHANGED <<parse_vars, serve_vars, rot_vars>>

\* the with block closes the archive; its size decides the answer
ExtractRespond ==
    /\ ext_pc = "for"
    /\ ext_page_idx > Len(ext_reader)
    /\ ext_resp' = IF nbytes(ext_zf) = 0
                   THEN Response(200, "No extractable images found", <<>>)
                   ELSE Response(200, "images.zip", ext_zf)
    /\ ext_pc' = "done"
    /\ UNCHANGED <<ext_req, ext_reader, ext_page_idx, ext_img_count, ext_zf>>
    /\ UNCHANGED <<parse_vars, serve_vars, rot_vars>>

---------------------------------------------------------------------------
(* Specifications *)

ParseIdle ==
    /\ pages = NoneStr
    /\ total_pages = 0
    /\ parse_out = NotCalled

ServeFresh ==
    /\ pos = [r \in Slots |-> 0]
    /\ writer = [r \in Slots |-> <<>>]
    /\ decoded = [r \in Slots |-> {}]
    /\ pil_images = [r \in Slots |-> <<>>]
    /\ opened = [r \in Slots |-> {}]
    /\ closed = [r \in Slots |-> {}]
    /\ resp = [r \in Slots |-> NoResponse]

ServeIdle ==
    /\ req = [r \in Slots |-> NoRequest]
    /\ pc = [r \in Slots |-> "idle"]
    /\ ServeFresh

RotateFresh ==
    /\ rot_reader = <<>>
    /\ rot_indices = {}
    /\ rot_i = 0
    /\ rot_writer = <<>>
    /\ rot_resp = NoResponse

RotateIdle ==
    /\ rot_req = RotateRequest(TRUE, Document(<<>>), 90, NoneStr)
    /\ rot_pc = "idle"
    /\ RotateFresh

ExtractFresh ==
    /\ ext_reader = <<>>
    /\ ext_page_idx = 0
    /\ ext_img_count = 0
    /\ ext_zf = <<>>
    /\ ext_resp = NoResponse

ExtractIdle ==
    /\ ext_req = ExtractRequest(TRUE, Document(<<>>))
    /\ ext_pc = "idle"
    /\ ExtractFresh

\* _parse_pages called on its own
InitParse ==
    /\ pages \in PageExprs
    /\ total_pages \in 0..MaxTotal
    /\ parse_out = NotCalled
    /\ ServeIdle /\ RotateIdle /\ ExtractIdle

CallParsePages ==
    /\ parse_out.kind = "none"
    /\ parse_out' = _parse_pages(pages, total_pages)
    /\ UNCHANGED <<pages, total_pages>>
    /\ UNCHANGED <<serve_vars, rot_vars, ext_vars>>

NextParse == CallParsePages

SpecParse == InitParse /\ [][NextParse]_vars

\* one merge request
MergeRequests == {MergeRequest(f) : f \in SeqsUpTo(MergeUploads(MaxDocPages), MaxFiles)}

InitMerge ==
    /\ \E m \in MergeRequests : req = [r \in Slots |-> IF r = 1 THEN m ELSE NoRequest]
    /\ pc = [r \in Slots |-> IF r = 1 THEN "start" ELSE "idle"]
    /\ ServeFresh
    /\ ParseIdle /\ RotateIdle /\ ExtractIdle

NextMerge ==
    \E r \in Slots : MergeStart(r) \/ MergeCheck(r) \/ MergeRead(r) \/ MergeWrite(r)

SpecMerge == InitMerge /\ [][NextMerge]_vars

\* two requests, merge or images-to-pdf, whose steps interleave at their awaits
ServeUploads ==
    {Upload(TRUE, Document(<<"p">>)), Upload(TRUE, Document(<<"q", "p">>)),
     Upload(TRUE, Corrupt), Upload(FALSE, Document(<<"p">>))}

ServeRequests ==
    {MergeRequest(f) : f \in SeqsUpTo(ServeUploads, MaxServeFiles)}
    \cup {ImagesRequest(f) : f \in SeqsUpTo(ImageUploads, MaxServeFiles)}

InitServe ==
    /\ req \in [Slots -> ServeRequests]
    /\ pc = [r \in Slots |-> "start"]
    /\ ServeFresh
    /\ ParseIdle /\ RotateIdle /\ ExtractIdle

NextServe ==
    \E r \in Slots :
        \/ MergeStart(r) \/ MergeCheck(r) \/ MergeRead(r) \/ MergeWrite(r)
        \/ ImagesStart(r) \/ ImagesRead(r) \/ ImagesSave(r)

SpecServe == InitServe /\ [][NextServe]_vars

\* one rotate request
InitRotate ==
    /\ rot_req \in {RotateRequest(n, b, a, p) :
                       n \in BOOLEAN, b \in RotDocsUpTo(MaxRotPages) \cup {Corrupt},
                       a \in Angles, p \in RotPageExprs}
    /\ rot_pc = "start"
    /\ RotateFresh
    /\ ParseIdle /\ ServeIdle /\ ExtractIdle

NextRotate == RotateStart \/ RotateRead \/ RotatePage \/ RotateWrite

SpecRotate == InitRotate /\ [][NextRotate]_vars

\* one extract-images request
InitExtract ==
    /\ ext_req \in {ExtractRequest(n, b) : n \in BOOLEAN, b \in ExtDocs \cup {Corrupt}}
    /\ ext_pc = "start"
    /\ ExtractFresh
    /\ ParseIdle /\ ServeIdle /\ RotateIdle

NextExtract == ExtractStart \/ ExtractRead \/ ExtractPage \/ ExtractRespond

SpecExtract == InitExtract /\ [][NextExtract]_vars

---------------------------------------------------------------------------
(* The handlers as functions of one request, run with no other request *)

\* the for loop of merge_pdfs from file k on, and what the handler answers
RECURSIVE MergeFrom(_, _, _)
MergeFrom(files, k, w) ==
    IF k > Len(files) THEN Response(200, "merged.pdf", w)
    ELSE IF ~files[k].filename_pdf THEN MergeExcept("is not a PDF")
    ELSE IF ~files[k].body.readable THEN MergeExcept("PdfReadError")
    ELSE MergeFrom(files, k + 1, AddPages(w, files[k].body.pages, 1))

merge_pdfs(files) ==
    IF Len(files) < 2
    THEN Response(400, "Upload at least two PDF files to merge", <<>>)
    ELSE MergeFrom(files, 1, <<>>)

images_to_pdf(images) ==
    IF images = <<>> THEN Response(400, "Upload at least one image", <<>>)
    ELSE IF \E k \in 1..Len(images) : ~Decodable(images[k])
    THEN Response(400, "One or more files are not valid images", <<>>)
    ELSE IF ~Savable(images) THEN Unhandled("save")
    ELSE Response(200, "images.pdf", images)

Alone(request) ==
    IF request.kind = "merge" THEN merge_pdfs(request.files)
    ELSE images_to_pdf(request.files)

---------------------------------------------------------------------------
(* Claims *)

StrictlyAscending(v) == \A j, k \in 1..Len(v) : j < k => v[j] < v[k]

\* C1: whenever _parse_pages returns a list, the list is strictly ascending
\* (so without duplicates) and each of its elements lies in 0..total_pages-1,
\* whatever the order, overlap or bounds of the tokens.
C1_ParseAscendingInRange ==
    parse_out.kind = "return" =>
        /\ StrictlyAscending(parse_out.value)
        /\ \A k \in 1..Len(parse_out.value) :
              0 <= parse_out.value[k] /\ parse_out.value[k] <= total_pages - 1

\* "3-13,0-3" on 3 pages: tokens out of order, overlapping, both bounds out of range
C1_Witness ==
    /\ pages = <<"3", "-", "1", "3", ",", "0", "-", "3">>
    /\ total_pages = 3
    /\ parse_out = Returned(<<0, 1, 2>>)

\* C2: on a non-empty expression _parse_pages returns a non-empty list or
\* raises HTTPException 400 (InvalidSelection), and nothing else.
C2_OnlyInvalidSelection ==
    (parse_out.kind # "none" /\ pages # NoneStr /\ pages # <<>>) =>
        \/ parse_out.kind = "return" /\ parse_out.value # <<>>
        \/ parse_out.exc = "HTTPException" /\ parse_out.status = 400

\* C3: a finished merge of at least two files, one of them not named *.pdf,
\* has answered 400.
C3_BadExtensionIs400 ==
    \A r \in Slots :
        ( /\ pc[r] = "done"
          /\ req[r].kind = "merge"
          /\ Len(req[r].files) >= 2
          /\ \E k \in 1..Len(req[r].files) : ~req[r].files[k].filename_pdf )
        => resp[r].status = 400

ValidationDetails == {"Upload at least two PDF files to merge", "is not a PDF"}

\* C4: a request that ended on a validation error (the file count, a file's
\* extension) has decoded none of its files.
C4_ValidationBeforeDecoding ==
    \A r \in Slots :
        (pc[r] = "done" /\ resp[r].detail \in ValidationDetails) => decoded[r] = {}

\* C5: extract-images answers "no images found" exactly when the archive has
\* no entry, and the archive images.zip exactly when it has one.
C5_EmptyArchiveIsNoImages ==
    (ext_pc = "done" /\ ext_resp.status = 200) =>
        /\ ext_zf = <<>> => ext_resp.detail = "No extractable images found"
        /\ ext_zf # <<>> => ext_resp.detail = "images.zip" /\ ext_resp.body = ext_zf

PageRaises(page) ==
    \E k \in 1..Len(page) : page[k] \in {"iter_error", "read_error"}
EntriesOf(zf, page_no) == {k \in 1..Len(zf) : zf[k].page = page_no}

\* C6: when extract-images has answered, a page whose enumeration raised has
\* no entry in the archive, and every other page has one entry per image.
C6_FailedPageContributesNothing ==
    (ext_pc = "done" /\ ext_resp.status = 200) =>
        \A p \in 1..Len(ext_reader) :
            IF PageRaises(ext_reader[p])
            THEN EntriesOf(ext_zf, p) = {}
            ELSE Cardinality(EntriesOf(ext_zf, p)) = Len(ext_reader[p])

\* C7: when an images-to-pdf request has ended, every image it opened has
\* been closed.
C7_HandlesReleased ==
    \A r \in Slots :
        (pc[r] = "done" /\ req[r].kind = "images") => opened[r] \subseteq closed[r]

\* C8: a rotated document has the pages of the source in the source's order;
\* a page whose index is targeted has the source's rotation plus the angle
\* (modulo 360), any other page the source's rotation; without a page
\* selection every page is targeted.
C8_RotatePreservesPages ==
    (rot_pc = "done" /\ rot_resp.status = 200) =>
        LET src == rot_req.body.pages
            out == rot_resp.body
        IN  /\ rot_req.angle \in {90, 180, 270}
            /\ Len(out) = Len(src)
            /\ IF rot_req.pages = NoneStr \/ rot_req.pages = <<>>
               THEN rot_indices = {k - 1 : k \in 1..Len(src)}
               ELSE LET sel == _parse_pages(rot_req.pages, Len(src)).value
                    IN  rot_indices = {sel[k] : k \in 1..Len(sel)}
            /\ \A k \in 1..Len(src) :
                  /\ out[k].id = src[k].id
                  /\ IF (k - 1) \in rot_indices
                     THEN out[k].rotation % 360 = (src[k].rotation + rot_req.angle) % 360
                     ELSE out[k].rotation = src[k].rotation

\* "3,1" on three pages: pages 1 and 3 turned (270 + 180 wraps), page 2 left alone
C8_Witness ==
    /\ rot_pc = "done"
    /\ rot_resp.status = 200
    /\ rot_req.pages = <<"3", ",", "1">>
    /\ rot_req.angle = 180
    /\ rot_indices = {0, 2}
    /\ rot_req.body.pages = <<SourcePage(1, 270), SourcePage(2, 90), SourcePage(3, 0)>>
    /\ rot_resp.body = <<SourcePage(1, 450), SourcePage(2, 90), SourcePage(3, 180)>>

RECURSIVE Concat(_)
Concat(files) ==
    IF files = <<>> THEN <<>> ELSE files[1].body.pages \o Concat(Tail(files))

\* C9: a merged document is the concatenation of the inputs' pages, in
\* submission order, nothing reordered or dropped; and merging the first two
\* inputs, then that result with the others, gives the same pages.
C9_MergeConcatenates ==
    \A r \in Slots :
        (pc[r] = "done" /\ req[r].kind = "merge" /\ resp[r].status = 200) =>
            LET files == req[r].files
                first_two == merge_pdfs(SubSeq(files, 1, 2))
            IN  /\ resp[r].body = Concat(files)
                /\ Len(files) >= 3 =>
                      /\ first_two.status = 200
                      /\ resp[r].body =
                            merge_pdfs(<<Upload(TRUE, Document(first_two.body))>>
                                           \o SubSeq(files, 3, Len(files))).body

C9_Witness ==
    /\ pc[1] = "done"
    /\ req[1].files = <<Upload(TRUE, Document(<<"p", "q">>)), Upload(TRUE, Document(<<"p">>)),
                        Upload(TRUE, Document(<<"q", "p">>))>>
    /\ resp[1] = Response(200, "merged.pdf", <<"p", "q", "p", "q", "p">>)

\* C10: whatever the interleaving of two requests at their awaits, each
\* request's answer is the one it gets running alone.
C10_RequestsIsolated ==
    \A r \in Slots : pc[r] = "done" => resp[r] = Alone(req[r])

\* request 1 has merged while request 2, also a merge, waits on its second file
C10_Witness ==
    /\ pc[1] = "done" /\ req[1].kind = "merge" /\ resp[1].status = 200
    /\ Len(resp[1].body) = 3
    /\ pc[2] = "read" /\ req[2].kind = "merge" /\ pos[2] = 2
    /\ writer[WriterOf(2)] = <<"q", "p">>

===========================================================================
